---- MODULE Spec2Model ----
(***************************************************************************)
(* A model of pkg/core/execution/execution.go of digger:                   *)
(*   - LockingExecutorWrapper (the locking decorator),                      *)
(*   - ProjectPathProvider (plan artifact naming),                          *)
(*   - DiggerExecutor (the step interpreter),                               *)
(*   - cleanupTerraformOutput (the output sanitizer).                       *)
(* Strings are sequences of symbols; an error value is a sequence of        *)
(* message parts, the empty sequence being Go's nil error.                  *)
(***************************************************************************)
EXTENDS Integers, Sequences, FiniteSets, TLC

VARIABLES
    lockHolder,   \* the party holding the project lock, NoParty when free
    pc,           \* per party: "idle", "inPlan" or "inApply" (inside the wrapped executor)
    call          \* per party: the record of its current or last decorator call

VARIABLES
    sanIn,        \* the arguments of a cleanupTerraformOutput call
    sanOut,       \* its result, NotRun before the call
    sanAgain      \* the result of the call repeated on sanOut, NotRun before

VARIABLES
    pathIds,      \* two ProjectPathProvider values
    pathOut       \* the names derived from them, NotRun before

VARIABLES
    d,              \* the DiggerExecutor: its stages and whether a PlanStorage is set
    env,            \* the process environment read by the run steps
    stored,         \* the artifact store's content at the storage key, NoPlan if none
    exOp,           \* the operation called: "none", "Plan" or "Apply"
    exPc,           \* "ready", "planLoop", "applyLoop" or "done"
    steps,          \* planSteps / applySteps
    idx,            \* the index in steps of the next step of the loop
    plan,           \* Plan()'s plan text
    plansFilename,  \* Apply()'s plansFilename, NilPtr while unset
    calls,          \* the calls made to the collaborators, in order
    sanitized,      \* the calls of cleanupTerraformPlan / cleanupTerraformApply, in order
    ret             \* the returned values, NoRet before the return

lockVars == <<lockHolder, pc, call>>
exVars == <<d, env, stored, exOp, exPc, steps, idx, plan, plansFilename, calls,
           sanitized, ret>>
sanVars == <<sanIn, sanOut, sanAgain>>
pathVars == <<pathIds, pathOut>>
vars == <<lockHolder, pc, call, sanIn, sanOut, sanAgain, pathIds, pathOut,
          d, env, stored, exOp, exPc, steps, idx, plan, plansFilename, calls,
          sanitized, ret>>

(***************************************************************************)
(* Bounds                                                                   *)
(***************************************************************************)
NumParties == 2
MaxStrLen == 4
MaxNsLen == 2
MaxSteps == 2

Parties == 1..NumParties
NoParty == 0

(***************************************************************************)
(* Errors                                                                   *)
(***************************************************************************)
Nil == << >>
Err(msg) == <<msg>>
\* fmt.Errorf("<prefix>: %v", err)
Errorf(prefix, err) == <<prefix>> \o err

(***************************************************************************)
(* The injected project lock (locking.ProjectLock): at most one holder;     *)
(* Lock() grants the lock when it is free or already held by the caller,    *)
(* reports "not acquired" when another party holds it, or fails;            *)
(* ForceUnlock() releases it regardless of the holder, or fails.            *)
(***************************************************************************)
ProjectLockLock(p, holder) ==
    {[acquired |-> FALSE, err |-> Err("lock backend failure"), holder |-> holder]}
    \cup
    (IF holder = NoParty \/ holder = p
        THEN {[acquired |-> TRUE, err |-> Nil, holder |-> p]}
        ELSE {[acquired |-> FALSE, err |-> Nil, holder |-> holder]})

ProjectLockForceUnlock(holder) ==
    { [err |-> Nil, holder |-> NoParty],
      [err |-> Err("unlock backend failure"), holder |-> holder] }

(***************************************************************************)
(* The wrapped Executor: any implementation of Plan()/Apply().              *)
(***************************************************************************)
ExecutorPlanResults ==
    { [ok |-> TRUE,  plan |-> "plan text", err |-> Nil],
      [ok |-> TRUE,  plan |-> "",          err |-> Nil],
      [ok |-> FALSE, plan |-> "",          err |-> Err("error running init")] }

ExecutorApplyResults ==
    { [ok |-> TRUE,  err |-> Nil],
      [ok |-> FALSE, err |-> Err("error executing apply")] }

(***************************************************************************)
(* LockingExecutorWrapper                                                   *)
(***************************************************************************)
NoRet == [pending |-> TRUE]
NoCall == [op |-> "none", acquired |-> FALSE, lockErr |-> Nil,
           execCalls |-> 0, execRet |-> NoRet, ret |-> NoRet]

\* Plan()/Apply(): the wrapped executor is called iff Lock() gave no error and locked
WrapperDelegatesIgnoringLocked(locked, err) == err = Nil
WrapperDelegates(locked, err) == err = Nil /\ locked

\* Plan() when it does not delegate
WrapperPlanSkipAsSuccess(locked, err) ==
    IF err # Nil
        THEN [ok |-> FALSE, plan |-> "", err |-> Errorf("error locking project", err)]
        ELSE [ok |-> TRUE, plan |-> "", err |-> Nil]
WrapperPlanSkip(locked, err) ==
    IF err # Nil
        THEN [ok |-> FALSE, plan |-> "", err |-> Errorf("error locking project", err)]
        ELSE [ok |-> FALSE, plan |-> "", err |-> Nil]

\* Apply() when it does not delegate
WrapperApplySkip(locked, err) ==
    IF err # Nil
        THEN [ok |-> FALSE, err |-> Errorf("error locking project", err)]
        ELSE [ok |-> FALSE, err |-> Nil]

\* Plan()/Apply() when the wrapped executor returns: its result is returned as is
WrapperPropagateDroppingError(r) == [r EXCEPT !.err = Nil]
WrapperPropagate(r) == r

\* Lock(): the acquired flag is discarded, only the error decides
WrapperLockResult(locked, err) ==
    IF err # Nil THEN [err |-> Errorf("failed to aquire lock", err)] ELSE [err |-> Nil]

\* Unlock()
WrapperUnlockResult(err) ==
    IF err # Nil THEN [err |-> Errorf("failed to aquire lock", err)] ELSE [err |-> Nil]

\* Plan(), up to the call of the wrapped executor or the early return
WrapperPlan(p) ==
    /\ pc[p] = "idle"
    /\ \E o \in ProjectLockLock(p, lockHolder) :
        /\ lockHolder' = o.holder
        /\ IF WrapperDelegates(o.acquired, o.err)
             THEN /\ pc' = [pc EXCEPT ![p] = "inPlan"]
                  /\ call' = [call EXCEPT ![p] =
                        [op |-> "Plan", acquired |-> o.acquired, lockErr |-> o.err,
                         execCalls |-> 1, execRet |-> NoRet, ret |-> NoRet]]
             ELSE /\ pc' = pc
                  /\ call' = [call EXCEPT ![p] =
                        [op |-> "Plan", acquired |-> o.acquired, lockErr |-> o.err,
                         execCalls |-> 0, execRet |-> NoRet,
                         ret |-> WrapperPlanSkip(o.acquired, o.err)]]

\* Plan(): the wrapped executor's Plan() returns
WrapperPlanReturn(p) ==
    /\ pc[p] = "inPlan"
    /\ \E r \in ExecutorPlanResults :
        call' = [call EXCEPT ![p].execRet = r, ![p].ret = WrapperPropagate(r)]
    /\ pc' = [pc EXCEPT ![p] = "idle"]
    /\ UNCHANGED lockHolder

\* Apply(), up to the call of the wrapped executor or the early return
WrapperApply(p) ==
    /\ pc[p] = "idle"
    /\ \E o \in ProjectLockLock(p, lockHolder) :
        /\ lockHolder' = o.holder
        /\ IF WrapperDelegates(o.acquired, o.err)
             THEN /\ pc' = [pc EXCEPT ![p] = "inApply"]
                  /\ call' = [call EXCEPT ![p] =
                        [op |-> "Apply", acquired |-> o.acquired, lockErr |-> o.err,
                         execCalls |-> 1, execRet |-> NoRet, ret |-> NoRet]]
             ELSE /\ pc' = pc
                  /\ call' = [call EXCEPT ![p] =
                        [op |-> "Apply", acquired |-> o.acquired, lockErr |-> o.err,
                         execCalls |-> 0, execRet |-> NoRet,
                         ret |-> WrapperApplySkip(o.acquired, o.err)]]

\* Apply(): the wrapped executor's Apply() returns
WrapperApplyReturn(p) ==
    /\ pc[p] = "inApply"
    /\ \E r \in ExecutorApplyResults :
        call' = [call EXCEPT ![p].execRet = r, ![p].ret = WrapperPropagate(r)]
    /\ pc' = [pc EXCEPT ![p] = "idle"]
    /\ UNCHANGED lockHolder

\* Unlock()
WrapperUnlock(p) ==
    /\ pc[p] = "idle"
    /\ \E o \in ProjectLockForceUnlock(lockHolder) :
        /\ lockHolder' = o.holder
        /\ call' = [call EXCEPT ![p] =
              [op |-> "Unlock", acquired |-> FALSE, lockErr |-> o.err,
               execCalls |-> 0, execRet |-> NoRet, ret |-> WrapperUnlockResult(o.err)]]
    /\ UNCHANGED pc

\* Lock()
WrapperLock(p) ==
    /\ pc[p] = "idle"
    /\ \E o \in ProjectLockLock(p, lockHolder) :
        /\ lockHolder' = o.holder
        /\ call' = [call EXCEPT ![p] =
              [op |-> "Lock", acquired |-> o.acquired, lockErr |-> o.err,
               execCalls |-> 0, execRet |-> NoRet,
               ret |-> WrapperLockResult(o.acquired, o.err)]]
    /\ UNCHANGED pc

(***************************************************************************)
(* Strings: sequences of symbols, with Go's 0-based positions.              *)
(***************************************************************************)
Min(S) == CHOOSE x \in S : \A y \in S : x <= y
Max(S) == CHOOSE x \in S : \A y \in S : x >= y

StringsUpTo(alphabet, n) == UNION {[1..k -> alphabet] : k \in 0..n}

\* the result of a slice expression whose bounds are out of range (a run-time panic)
Panic == <<"panic: slice bounds out of range">>

\* s[a:b]
Slice(s, a, b) ==
    IF 0 <= a /\ a <= b /\ b <= Len(s) THEN SubSeq(s, a + 1, b) ELSE Panic

Occurrences(s, sub) ==
    {i \in 0..(Len(s) - Len(sub)) : SubSeq(s, i + 1, i + Len(sub)) = sub}

\* strings.Index
Index(s, sub) == IF Occurrences(s, sub) = {} THEN -1 ELSE Min(Occurrences(s, sub))

\* strings.LastIndex
LastIndex(s, sub) == IF Occurrences(s, sub) = {} THEN -1 ELSE Max(Occurrences(s, sub))

\* strings.ReplaceAll for a one-symbol old and new
ReplaceAll(s, old, new) == [i \in 1..Len(s) |-> IF s[i] = old THEN new ELSE s[i]]

(***************************************************************************)
(* cleanupTerraformOutput.  Each literal of the source is one symbol.       *)
(***************************************************************************)
BackendMarker == <<"Initializing the backend...">>
StartNonEmpty == <<"Terraform will perform the following actions:">>
StartNoChanges == <<"No changes. Your infrastructure matches the configuration.">>
Dashes == "-----------"     \* the eleven box-drawing dashes of the plan pattern
NewLine == "\n"
Other == "x"                \* any other text

NilRegex == "nil"
PlanRegex == "-----------.+"

\* regex.FindStringSubmatch for PlanRegex: the leftmost match, '.+' running to the
\* end of the line; <<>> when there is none, else <<match>>
MatchStarts(s) ==
    {i \in 0..(Len(s) - 2) : s[i + 1] = Dashes /\ s[i + 2] # NewLine}
LineEnd(s, i) ==
    Min({j \in i..Len(s) : j = Len(s) \/ s[j + 1] = NewLine})
FindStringSubmatch(regexStr, s) ==
    IF MatchStarts(s) = {} THEN << >>
    ELSE LET i == Min(MatchStarts(s)) IN << Slice(s, i, LineEnd(s, i)) >>

\* lines 249-252
TrimBackend(stdout) ==
    LET i == Index(stdout, BackendMarker)
    IN  IF i # -1 THEN Slice(stdout, i, Len(stdout)) ELSE stdout

\* lines 256-261
ErrorStr(stdout, stderr) ==
    IF stderr # << >> THEN stderr
    ELSE IF stdout # << >> THEN stdout
    ELSE << >>

\* the two anchors exchanged
StartAnchorSwapped(nonEmptyOutput) ==
    IF nonEmptyOutput THEN StartNoChanges ELSE StartNonEmpty

\* lines 262-266
StartAnchor(nonEmptyOutput) ==
    IF nonEmptyOutput THEN StartNonEmpty ELSE StartNoChanges

\* lines 268-271
StartPos(stdout, start) ==
    LET startPos == Index(stdout, start)
    IN  IF startPos = -1 THEN 0 ELSE startPos

\* lines 253, 273-280
RegexEndPos(stdout, regexStr) ==
    IF regexStr # NilRegex
    THEN LET matches == FindStringSubmatch(regexStr, stdout)
         IN  IF Len(matches) > 0
             THEN LastIndex(stdout, matches[1]) + Len(matches[1])
             ELSE Len(stdout)
    ELSE Len(stdout)

\* lines 283-285
GuardEndPosOff(stdout, startPos, endPos) == endPos
GuardEndPos(stdout, startPos, endPos) ==
    IF endPos <= startPos THEN Len(stdout) ELSE endPos

\* the slice bounds of line 286, on the success path
CleanupPositions(nonEmptyOutput, stdout, regexStr) ==
    LET trimmed == TrimBackend(stdout)
        startPos == StartPos(trimmed, StartAnchor(nonEmptyOutput))
        endPos == GuardEndPos(trimmed, startPos, RegexEndPos(trimmed, regexStr))
    IN  [stdout |-> trimmed, startPos |-> startPos, endPos |-> endPos]

cleanupTerraformOutput(nonEmptyOutput, planError, stdout, stderr, regexStr) ==
    IF planError # Nil
    THEN ErrorStr(TrimBackend(stdout), stderr)
    ELSE LET c == CleanupPositions(nonEmptyOutput, stdout, regexStr)
         IN  Slice(c.stdout, c.startPos, c.endPos)

cleanupTerraformApply(nonEmptyPlan, planError, stdout, stderr) ==
    cleanupTerraformOutput(nonEmptyPlan, planError, stdout, stderr, NilRegex)

cleanupTerraformPlan(nonEmptyPlan, planError, stdout, stderr) ==
    cleanupTerraformOutput(nonEmptyPlan, planError, stdout, stderr, PlanRegex)

\* the two call shapes
Cleanup(in, stdout) ==
    IF in.mode = "plan"
    THEN cleanupTerraformPlan(in.nonEmpty, in.err, stdout, in.stderr)
    ELSE cleanupTerraformApply(in.nonEmpty, in.err, stdout, in.stderr)

NotRun == <<"not run">>

SanAlphabet ==
    {BackendMarker[1], StartNonEmpty[1], StartNoChanges[1], Dashes, NewLine, Other}

\* a plan output with two separator lines of different length
SanSamples ==
    { <<StartNonEmpty[1], Other, NewLine, Dashes, Other, NewLine,
        Other, NewLine, Dashes, Dashes, NewLine, Other>> }

SanInputs ==
    [ nonEmpty : BOOLEAN,
      err : {Nil, Err("exit status 1")},
      stdout : StringsUpTo(SanAlphabet, MaxStrLen) \cup SanSamples,
      stderr : {<< >>, <<"Error: some failure">>},
      mode : {"plan", "apply"} ]

\* a call of cleanupTerraformPlan / cleanupTerraformApply
Sanitize ==
    /\ sanOut = NotRun
    /\ sanOut' = Cleanup(sanIn, sanIn.stdout)
    /\ UNCHANGED <<sanIn, sanAgain>>

\* the same call on the result of the first
Resanitize ==
    /\ sanOut # NotRun
    /\ sanAgain = NotRun
    /\ sanAgain' = Cleanup(sanIn, sanOut)
    /\ UNCHANGED <<sanIn, sanOut>>

SanIdle ==
    /\ sanIn = [nonEmpty |-> FALSE, err |-> Nil, stdout |-> << >>,
                stderr |-> << >>, mode |-> "apply"]
    /\ sanOut = NotRun
    /\ sanAgain = NotRun

(***************************************************************************)
(* ProjectPathProvider                                                      *)
(***************************************************************************)
Slash == "/"
Dot == "."

\* the index of the first Slash of s after position i, Len(s) + 1 if none
NextSlash(s, i) ==
    Min({j \in (i + 1)..(Len(s) + 1) : j = Len(s) + 1 \/ s[j] = Slash})

\* strings.Split(s, "/") from position i on: the elements between the slashes
RECURSIVE SplitFrom(_, _)
SplitFrom(s, i) ==
    LET j == NextSlash(s, i)
    IN  IF j = Len(s) + 1 THEN << SubSeq(s, i + 1, Len(s)) >>
        ELSE << SubSeq(s, i + 1, j - 1) >> \o SplitFrom(s, j)

\* path.Clean, on the elements: "" and "." dropped, ".." removes the element
\* before it, is dropped at the root and kept at the start of a relative path
RECURSIVE CleanElems(_, _, _)
CleanElems(elems, stack, rooted) ==
    IF elems = << >> THEN stack
    ELSE LET e == Head(elems)
             rest == Tail(elems)
         IN  IF e = << >> \/ e = <<Dot>> THEN CleanElems(rest, stack, rooted)
             ELSE IF e = <<Dot, Dot>>
                  THEN IF stack # << >> /\ stack[Len(stack)] # <<Dot, Dot>>
                       THEN CleanElems(rest, SubSeq(stack, 1, Len(stack) - 1), rooted)
                       ELSE IF rooted THEN CleanElems(rest, stack, rooted)
                       ELSE CleanElems(rest, Append(stack, e), rooted)
                  ELSE CleanElems(rest, Append(stack, e), rooted)

RECURSIVE JoinElems(_)
JoinElems(elems) ==
    IF elems = << >> THEN << >>
    ELSE IF Len(elems) = 1 THEN elems[1]
    ELSE elems[1] \o <<Slash>> \o JoinElems(Tail(elems))

\* path.Clean
PathClean(s) ==
    LET rooted == s # << >> /\ s[1] = Slash
        out == (IF rooted THEN <<Slash>> ELSE << >>)
                   \o JoinElems(CleanElems(SplitFrom(s, 0), << >>, rooted))
    IN  IF out = << >> THEN <<Dot>> ELSE out

\* path.Join of two elements: empty elements are ignored, the rest cleaned
PathJoin(a, b) ==
    IF a = << >> /\ b = << >> THEN << >>
    ELSE IF a = << >> THEN PathClean(b)
    ELSE IF b = << >> THEN PathClean(a)
    ELSE PathClean(a \o <<Slash>> \o b)

PlanFileNameWithoutName(pp) ==
    ReplaceAll(pp.ProjectNamespace, Slash, ":") \o <<"#">> \o <<".tfplan">>
PlanFileName(pp) ==
    ReplaceAll(pp.ProjectNamespace, Slash, ":") \o <<"#">> \o pp.ProjectName \o <<".tfplan">>

LocalPlanFilePath(pp) == PathJoin(pp.ProjectPath, PlanFileName(pp))

StoredPlanFilePath(pp) == PathJoin(pp.ProjectNamespace, PlanFileName(pp))

PathAlphabet == {"a", Slash, ":", "#", Dot}
ProjectNames == { <<"a">>, <<"b">>, <<"#", "a">>, <<"a", Slash, "b">> }
ProjectPaths == { <<"w">> }

Providers ==
    [ ProjectPath : ProjectPaths,
      ProjectNamespace : StringsUpTo(PathAlphabet, MaxNsLen),
      ProjectName : ProjectNames ]

Names(pp) ==
    [ file |-> PlanFileName(pp), local |-> LocalPlanFilePath(pp),
      stored |-> StoredPlanFilePath(pp) ]

\* the three derivations, for both providers
DeriveNames ==
    /\ pathOut = NotRun
    /\ pathOut' = << Names(pathIds[1]), Names(pathIds[2]) >>
    /\ UNCHANGED pathIds

PathIdle ==
    /\ pathIds = << >>
    /\ pathOut = NotRun

(***************************************************************************)
(* DiggerExecutor                                                           *)
(***************************************************************************)
Project == [ ProjectPath |-> <<"w">>,
             ProjectNamespace |-> <<"o", Slash, "r">>,
             ProjectName |-> <<"p">> ]

\* a *models.Stage: nil, or a stage with its Steps
NilStage == [nil |-> TRUE, Steps |-> << >>]
Stage(ss) == [nil |-> FALSE, Steps |-> ss]
NilPtr == <<"nil pointer">>
NoPlan == <<"no plan">>
OldPlan == <<"plan stored earlier">>
\* the plan file written by the plan step i
PlanOf(i) == <<"plan of step", i>>

Step(action) ==
    [Action |-> action, ExtraArgs |-> <<"-lock=false">>, Value |-> "make", Shell |-> "bash"]

StepActions == {"init", "plan", "apply", "run", "destroy"}
Stages ==
    {Stage([i \in 1..Len(a) |-> Step(a[i])]) : a \in StringsUpTo(StepActions, MaxSteps)}

\* TerraformExecutor.Plan: (isNonEmptyPlan, stdout, stderr, err)
PlanOutcomes ==
    { [nonEmpty |-> TRUE,
       stdout |-> <<Other, BackendMarker[1], Other, StartNonEmpty[1], Other, NewLine,
                    Dashes, Other, NewLine, Other>>,
       stderr |-> << >>, err |-> Nil],
      [nonEmpty |-> FALSE,
       stdout |-> <<StartNoChanges[1], NewLine, Other>>,
       stderr |-> << >>, err |-> Nil],
      [nonEmpty |-> FALSE,
       stdout |-> <<Other>>, stderr |-> <<"Error: some failure">>,
       err |-> Err("exit status 1")] }

\* TerraformExecutor.Apply: (stdout, stderr, err)
ApplyOutcomes ==
    { [stdout |-> <<Other, BackendMarker[1], Other, StartNonEmpty[1], Other>>,
       stderr |-> << >>, err |-> Nil],
      [stdout |-> << >>, stderr |-> <<"Error: some failure">>,
       err |-> Err("exit status 1")],
      [stdout |-> <<Other, BackendMarker[1], Other>>, stderr |-> << >>,
       err |-> Err("exit status 1")] }

Failures(msg) == {Nil, Err(msg)}

Called(i, name, args, out, err) ==
    [step |-> i, call |-> name, args |-> args, out |-> out, err |-> err]

\* a call of the sanitizer by step i: the error it received and its result
Sanitized(i, err, out) == [step |-> i, err |-> err, out |-> out]

Continue == [abort |-> FALSE, err |-> Nil]
Abort(err) == [abort |-> TRUE, err |-> err]

\* lines 113-126
PlanSteps(dd) ==
    IF ~dd.PlanStage.nil THEN dd.PlanStage.Steps ELSE <<Step("init"), Step("plan")>>

\* lines 190-203
ApplySteps(dd) ==
    IF ~dd.ApplyStage.nil THEN dd.ApplyStage.Steps ELSE <<Step("init"), Step("apply")>>

\* lines 184-187
RetrieveOutcomeIgnoringError(err) == Continue
RetrieveOutcome(err) ==
    IF err # Nil THEN Abort(Errorf("error retrieving plan", err)) ELSE Continue

\* lines 130-132 and 208-210
InitOutcomeIgnoringError(err) == Continue
InitOutcome(err) ==
    IF err # Nil THEN Abort(Errorf("error running init", err)) ELSE Continue

\* a tool plan error that lets the step go on
PlanOutcomeIgnoringError(err) == Continue

\* lines 138-140
PlanOutcome(err) ==
    IF err # Nil THEN Abort(Errorf("error executing plan", err)) ELSE Continue

\* lines 172-174 and 237-239
RunOutcome(err) ==
    IF err # Nil THEN Abort(Errorf("error running command", err)) ELSE Continue

\* lines 165-169: Plan()'s command list of a run step
PlanRunCommands(step, e) ==
    (IF e.ACTIVATE_VENV = "true"
        THEN << <<"source ", e.GITHUB_WORKSPACE, "/.venv/bin/activate">> >>
        ELSE << >>)
    \o << step.Value >>

\* lines 230-234: Apply()'s command list of a run step
ApplyRunCommands(step, e) ==
    (IF e.ACTIVATE_VENV = "true"
        THEN << <<"source ", Project.ProjectPath, "/.venv/bin/activate">> >>
        ELSE << >>)
    \o << step.Value >>

\* the storage calls of a plan step that never deletes the plan found
PlanStorageRunWithoutDelete(i, content, existsErr, deleteErr, storeErr) ==
    LET key == StoredPlanFilePath(Project)
        planExists == content # NoPlan
        cExists == Called(i, "PlanExists", <<key>>, planExists /\ existsErr = Nil, existsErr)
        cStore == Called(i, "StorePlan", <<LocalPlanFilePath(Project), key>>, << >>, storeErr)
    IN  IF existsErr # Nil
        THEN [calls |-> <<cExists>>, stored |-> content,
              res |-> Abort(Errorf("error checking if plan exists", existsErr))]
        ELSE IF storeErr # Nil
        THEN [calls |-> <<cExists, cStore>>, stored |-> content,
              res |-> Abort(Errorf("error storing plan", storeErr))]
        ELSE [calls |-> <<cExists, cStore>>, stored |-> PlanOf(i),
              res |-> Continue]

\* the storage calls of a plan step that puts the deleted plan back when StorePlan fails
PlanStorageRunRestoring(i, content, existsErr, deleteErr, storeErr) ==
    LET key == StoredPlanFilePath(Project)
        planExists == content # NoPlan
        cExists == Called(i, "PlanExists", <<key>>, planExists /\ existsErr = Nil, existsErr)
        cDelete == Called(i, "DeleteStoredPlan", <<key>>, << >>, deleteErr)
        cStore == Called(i, "StorePlan", <<LocalPlanFilePath(Project), key>>, << >>, storeErr)
        deleted == IF planExists THEN <<cDelete>> ELSE << >>
    IN  IF existsErr # Nil
        THEN [calls |-> <<cExists>>, stored |-> content,
              res |-> Abort(Errorf("error checking if plan exists", existsErr))]
        ELSE IF planExists /\ deleteErr # Nil
        THEN [calls |-> <<cExists, cDelete>>, stored |-> content,
              res |-> Abort(Errorf("error deleting plan", deleteErr))]
        ELSE IF storeErr # Nil
        THEN [calls |-> <<cExists>> \o deleted \o <<cStore>>, stored |-> content,
              res |-> Abort(Errorf("error storing plan", storeErr))]
        ELSE [calls |-> <<cExists>> \o deleted \o <<cStore>>, stored |-> PlanOf(i),
              res |-> Continue]

\* lines 141-158: the storage calls of a plan step, given the store's content and
\* the error of each call that is made; the artifact store reports truthfully
PlanStorageRun(i, content, existsErr, deleteErr, storeErr) ==
    LET key == StoredPlanFilePath(Project)
        planExists == content # NoPlan
        cExists == Called(i, "PlanExists", <<key>>, planExists /\ existsErr = Nil, existsErr)
        cDelete == Called(i, "DeleteStoredPlan", <<key>>, << >>, deleteErr)
        cStore == Called(i, "StorePlan", <<LocalPlanFilePath(Project), key>>, << >>, storeErr)
        afterDelete == IF planExists THEN NoPlan ELSE content
        deleted == IF planExists THEN <<cDelete>> ELSE << >>
    IN  IF existsErr # Nil
        THEN [calls |-> <<cExists>>, stored |-> content,
              res |-> Abort(Errorf("error checking if plan exists", existsErr))]
        ELSE IF planExists /\ deleteErr # Nil
        THEN [calls |-> <<cExists, cDelete>>, stored |-> content,
              res |-> Abort(Errorf("error deleting plan", deleteErr))]
        ELSE IF storeErr # Nil
        THEN [calls |-> <<cExists>> \o deleted \o <<cStore>>, stored |-> afterDelete,
              res |-> Abort(Errorf("error storing plan", storeErr))]
        ELSE [calls |-> <<cExists>> \o deleted \o <<cStore>>, stored |-> PlanOf(i),
              res |-> Continue]

\* lines 141, 159: no storage call without a PlanStorage
PlanStorageRuns(dd, i, content) ==
    IF dd.PlanStorage
    THEN { PlanStorageRun(i, content, e1, e2, e3) :
             e1 \in Failures("exists failed"), e2 \in Failures("delete failed"),
             e3 \in Failures("store failed") }
    ELSE { [calls |-> << >>, stored |-> content, res |-> Continue] }

\* lines 214-225: the Report calls of an apply step; a failed Report is only logged
ApplyReportsStoppingOnFailure(i, applyOutput, err, reportErr1, reportErr2) ==
    << Called(i, "Report", <<applyOutput, "Apply for <b>o/r#p</b>">>, << >>, reportErr1) >>
    \o (IF err # Nil /\ reportErr1 = Nil
          THEN << Called(i, "Report", <<err, "Error during applying.">>, << >>, reportErr2) >>
          ELSE << >>)
ApplyReports(i, applyOutput, err, reportErr1, reportErr2) ==
    << Called(i, "Report", <<applyOutput, "Apply for <b>o/r#p</b>">>, << >>, reportErr1) >>
    \o (IF err # Nil
          THEN << Called(i, "Report", <<err, "Error during applying.">>, << >>, reportErr2) >>
          ELSE << >>)

\* lines 221-227
ApplyOutcome(err) ==
    IF err # Nil THEN Abort(Errorf("error executing apply", err)) ELSE Continue

\* lines 217-227: how the apply step ends, with the tool's error and the two
\* Report errors in scope: the Report errors are printed, only err decides
ApplyStepOutcomeFailingOnReport(err, commentErr1, commentErr2) ==
    IF commentErr1 # Nil
    THEN Abort(Errorf("error publishing comment", commentErr1))
    ELSE ApplyOutcome(err)
ApplyStepOutcome(err, commentErr1, commentErr2) == ApplyOutcome(err)

\* a step of Plan()'s loop ends: return with the error, or go on to the next step
PlanStepEnds(res) ==
    IF res.abort
    THEN /\ ret' = [ok |-> FALSE, plan |-> << >>, err |-> res.err]
         /\ exPc' = "done"
         /\ idx' = idx
    ELSE /\ idx' = idx + 1
         /\ UNCHANGED <<ret, exPc>>

\* a step of Apply()'s loop ends
ApplyStepEnds(res) ==
    IF res.abort
    THEN /\ ret' = [ok |-> FALSE, err |-> res.err]
         /\ exPc' = "done"
         /\ idx' = idx
    ELSE /\ idx' = idx + 1
         /\ UNCHANGED <<ret, exPc>>

AtStep(loop, actions) ==
    /\ exPc = loop
    /\ idx <= Len(steps)
    /\ steps[idx].Action \in actions

\* Plan(), lines 112-126
DiggerPlanBegin ==
    /\ exPc = "ready"
    /\ exOp' = "Plan"
    /\ exPc' = "planLoop"
    /\ steps' = PlanSteps(d)
    /\ idx' = 1
    /\ plan' = << >>
    /\ UNCHANGED <<d, env, stored, plansFilename, calls, ret, sanitized>>

\* Plan(), an init step, lines 128-133
PlanStepInit ==
    /\ AtStep("planLoop", {"init"})
    /\ \E err \in Failures("init failed") :
        /\ calls' = Append(calls,
              Called(idx, "Init", <<steps[idx].ExtraArgs, "StateEnvVars">>, << >>, err))
        /\ PlanStepEnds(InitOutcome(err))
    /\ UNCHANGED <<d, env, exOp, stored, steps, plan, plansFilename, sanitized>>

\* Plan(), a plan step, lines 134-163
PlanStepPlan ==
    /\ AtStep("planLoop", {"plan"})
    /\ \E o \in PlanOutcomes :
        LET planArgs == <<"-out", PlanFileName(Project)>> \o steps[idx].ExtraArgs
            cPlan == Called(idx, "Plan", <<planArgs, "CommandEnvVars">>,
                            [nonEmpty |-> o.nonEmpty, stdout |-> o.stdout,
                             stderr |-> o.stderr], o.err)
        IN  IF PlanOutcome(o.err).abort
            THEN /\ calls' = Append(calls, cPlan)
                 /\ PlanStepEnds(PlanOutcome(o.err))
                 /\ UNCHANGED <<stored, plan, sanitized>>
            ELSE \E run \in PlanStorageRuns(d, idx, stored) :
                 /\ calls' = Append(calls, cPlan) \o run.calls
                 /\ stored' = run.stored
                 /\ PlanStepEnds(run.res)
                 /\ plan' = IF run.res.abort THEN plan
                            ELSE cleanupTerraformPlan(o.nonEmpty, o.err, o.stdout, o.stderr)
                 /\ sanitized' = IF run.res.abort THEN sanitized
                                 ELSE Append(sanitized,
                                         Sanitized(idx, o.err, plan'))
    /\ UNCHANGED <<d, env, exOp, steps, plansFilename>>

\* Plan(), a run step, lines 164-175
PlanStepRun ==
    /\ AtStep("planLoop", {"run"})
    /\ \E err \in Failures("command failed") :
        /\ calls' = Append(calls,
              Called(idx, "Run", <<Project.ProjectPath, steps[idx].Shell,
                                   PlanRunCommands(steps[idx], env)>>, << >>, err))
        /\ PlanStepEnds(RunOutcome(err))
    /\ UNCHANGED <<d, env, exOp, stored, steps, plan, plansFilename, sanitized>>

\* a step with any other action rejected with an error
PlanStepOtherRejecting ==
    /\ AtStep("planLoop", StepActions \ {"init", "plan", "run"})
    /\ PlanStepEnds(Abort(<<"unknown action">>))
    /\ UNCHANGED <<d, env, exOp, stored, steps, plan, plansFilename, calls, sanitized>>

\* Plan(), a step with any other action: none of the three conditions holds
PlanStepOther ==
    /\ AtStep("planLoop", StepActions \ {"init", "plan", "run"})
    /\ idx' = idx + 1
    /\ UNCHANGED <<d, env, exOp, stored, exPc, steps, plan, plansFilename, calls, ret, sanitized>>

\* Plan(), line 177
PlanReturn ==
    /\ exPc = "planLoop"
    /\ idx > Len(steps)
    /\ ret' = [ok |-> TRUE, plan |-> plan, err |-> Nil]
    /\ exPc' = "done"
    /\ UNCHANGED <<d, env, exOp, stored, steps, idx, plan, plansFilename, calls, sanitized>>

\* Apply(), lines 181-203
DiggerApplyBegin ==
    /\ exPc = "ready"
    /\ exOp' = "Apply"
    /\ IF d.PlanStorage
       THEN \E err \in Failures("retrieve failed") :
            LET local == LocalPlanFilePath(Project)
                got == IF err = Nil THEN local ELSE NilPtr
            IN  /\ calls' = Append(calls,
                      Called(0, "RetrievePlan", <<local, StoredPlanFilePath(Project)>>,
                             got, err))
                /\ plansFilename' = got
                /\ IF RetrieveOutcome(err).abort
                   THEN /\ ret' = [ok |-> FALSE, err |-> RetrieveOutcome(err).err]
                        /\ exPc' = "done"
                        /\ UNCHANGED <<steps, idx>>
                   ELSE /\ exPc' = "applyLoop"
                        /\ steps' = ApplySteps(d)
                        /\ idx' = 1
                        /\ UNCHANGED ret
       ELSE /\ exPc' = "applyLoop"
            /\ steps' = ApplySteps(d)
            /\ idx' = 1
            /\ UNCHANGED <<calls, plansFilename, ret>>
    /\ UNCHANGED <<d, env, stored, plan, sanitized>>

\* Apply(), an init step, lines 206-211
ApplyStepInit ==
    /\ AtStep("applyLoop", {"init"})
    /\ \E err \in Failures("init failed") :
        /\ calls' = Append(calls,
              Called(idx, "Init", <<steps[idx].ExtraArgs, "StateEnvVars">>, << >>, err))
        /\ ApplyStepEnds(InitOutcome(err))
    /\ UNCHANGED <<d, env, exOp, stored, steps, plan, plansFilename, sanitized>>

\* Apply(), an apply step, lines 212-228
ApplyStepApply ==
    /\ AtStep("applyLoop", {"apply"})
    /\ \E o \in ApplyOutcomes, r1, r2 \in Failures("report failed") :
        LET applyOutput == cleanupTerraformApply(TRUE, o.err, o.stdout, o.stderr)
        IN  /\ calls' = Append(calls,
                  Called(idx, "Apply", <<steps[idx].ExtraArgs, plansFilename, "CommandEnvVars">>,
                         [stdout |-> o.stdout, stderr |-> o.stderr], o.err))
                  \o ApplyReports(idx, applyOutput, o.err, r1, r2)
            /\ sanitized' = Append(sanitized, Sanitized(idx, o.err, applyOutput))
            /\ ApplyStepEnds(ApplyStepOutcome(o.err, r1, r2))
    /\ UNCHANGED <<d, env, exOp, stored, steps, plan, plansFilename>>

\* Apply(), a run step, lines 229-240
ApplyStepRun ==
    /\ AtStep("applyLoop", {"run"})
    /\ \E err \in Failures("command failed") :
        /\ calls' = Append(calls,
              Called(idx, "Run", <<Project.ProjectPath, steps[idx].Shell,
                                   ApplyRunCommands(steps[idx], env)>>, << >>, err))
        /\ ApplyStepEnds(RunOutcome(err))
    /\ UNCHANGED <<d, env, exOp, stored, steps, plan, plansFilename, sanitized>>

\* Apply(), a step with any other action
ApplyStepOther ==
    /\ AtStep("applyLoop", StepActions \ {"init", "apply", "run"})
    /\ idx' = idx + 1
    /\ UNCHANGED <<d, env, exOp, stored, exPc, steps, plan, plansFilename, calls, ret, sanitized>>

\* Apply(), line 242
ApplyReturn ==
    /\ exPc = "applyLoop"
    /\ idx > Len(steps)
    /\ ret' = [ok |-> TRUE, err |-> Nil]
    /\ exPc' = "done"
    /\ UNCHANGED <<d, env, exOp, stored, steps, idx, plan, plansFilename, calls, sanitized>>

Executors ==
    { [PlanStage |-> st, ApplyStage |-> st, PlanStorage |-> b] :
        st \in Stages \cup {NilStage}, b \in BOOLEAN }

Environments ==
    { [ACTIVATE_VENV |-> "", GITHUB_WORKSPACE |-> <<"w">>],
      [ACTIVATE_VENV |-> "true", GITHUB_WORKSPACE |-> <<"w">>],
      [ACTIVATE_VENV |-> "true", GITHUB_WORKSPACE |-> <<"gh">>] }

ExIdle ==
    /\ d = [PlanStage |-> NilStage, ApplyStage |-> NilStage, PlanStorage |-> FALSE]
    /\ env = [ACTIVATE_VENV |-> "", GITHUB_WORKSPACE |-> <<"w">>]
    /\ stored = NoPlan
    /\ exOp = "none"
    /\ exPc = "ready"
    /\ steps = << >>
    /\ idx = 0
    /\ plan = << >>
    /\ plansFilename = NilPtr
    /\ calls = << >>
    /\ sanitized = << >>
    /\ ret = NoRet

LockInit ==
    /\ lockHolder = NoParty
    /\ pc = [p \in Parties |-> "idle"]
    /\ call = [p \in Parties |-> NoCall]

(***************************************************************************)
(* Concurrent callers of one LockingExecutorWrapper                         *)
(***************************************************************************)
Init == LockInit /\ SanIdle /\ PathIdle /\ ExIdle

Next ==
    \/ \E p \in Parties : WrapperPlan(p) /\ UNCHANGED <<sanVars, pathVars, exVars>>
    \/ \E p \in Parties : WrapperPlanReturn(p) /\ UNCHANGED <<sanVars, pathVars, exVars>>
    \/ \E p \in Parties : WrapperApply(p) /\ UNCHANGED <<sanVars, pathVars, exVars>>
    \/ \E p \in Parties : WrapperApplyReturn(p) /\ UNCHANGED <<sanVars, pathVars, exVars>>
    \/ \E p \in Parties : WrapperUnlock(p) /\ UNCHANGED <<sanVars, pathVars, exVars>>
    \/ \E p \in Parties : WrapperLock(p) /\ UNCHANGED <<sanVars, pathVars, exVars>>

Spec == Init /\ [][Next]_vars

(***************************************************************************)
(* Calls of the sanitizer on arbitrary bounded inputs                       *)
(***************************************************************************)
SanInit ==
    /\ sanIn \in SanInputs
    /\ sanOut = NotRun
    /\ sanAgain = NotRun
    /\ LockInit /\ PathIdle /\ ExIdle

SanNext ==
    \/ Sanitize /\ UNCHANGED <<lockVars, pathVars, exVars>>
    \/ Resanitize /\ UNCHANGED <<lockVars, pathVars, exVars>>

SanSpec == SanInit /\ [][SanNext]_vars

(***************************************************************************)
(* Plan artifact naming for pairs of project identities                     *)
(***************************************************************************)
PathInit ==
    /\ pathIds \in Providers \X Providers
    /\ pathOut = NotRun
    /\ LockInit /\ SanIdle /\ ExIdle

PathNext == DeriveNames /\ UNCHANGED <<lockVars, sanVars, exVars>>

PathSpec == PathInit /\ [][PathNext]_vars

(***************************************************************************)
(* One call of DiggerExecutor.Plan() or Apply(), for every stage, store and  *)
(* environment, and every outcome of the collaborators                       *)
(***************************************************************************)
ExInit ==
    /\ d \in Executors
    /\ env \in Environments
    /\ stored \in {NoPlan, OldPlan}
    /\ exOp = "none"
    /\ exPc = "ready"
    /\ steps = << >>
    /\ idx = 0
    /\ plan = << >>
    /\ plansFilename = NilPtr
    /\ calls = << >>
    /\ sanitized = << >>
    /\ ret = NoRet
    /\ LockInit /\ SanIdle /\ PathIdle

ExNext ==
    \/ DiggerPlanBegin /\ UNCHANGED <<lockVars, sanVars, pathVars>>
    \/ PlanStepInit /\ UNCHANGED <<lockVars, sanVars, pathVars>>
    \/ PlanStepPlan /\ UNCHANGED <<lockVars, sanVars, pathVars>>
    \/ PlanStepRun /\ UNCHANGED <<lockVars, sanVars, pathVars>>
    \/ PlanStepOther /\ UNCHANGED <<lockVars, sanVars, pathVars>>
    \/ PlanReturn /\ UNCHANGED <<lockVars, sanVars, pathVars>>
    \/ DiggerApplyBegin /\ UNCHANGED <<lockVars, sanVars, pathVars>>
    \/ ApplyStepInit /\ UNCHANGED <<lockVars, sanVars, pathVars>>
    \/ ApplyStepApply /\ UNCHANGED <<lockVars, sanVars, pathVars>>
    \/ ApplyStepRun /\ UNCHANGED <<lockVars, sanVars, pathVars>>
    \/ ApplyStepOther /\ UNCHANGED <<lockVars, sanVars, pathVars>>
    \/ ApplyReturn /\ UNCHANGED <<lockVars, sanVars, pathVars>>

ExSpec == ExInit /\ [][ExNext]_vars

(***************************************************************************)
(* Properties of the locking decorator (Spec)                               *)
(***************************************************************************)
InExecutor(p) == pc[p] \in {"inPlan", "inApply"}

\* C1: for any interleaving of Plan(), Apply(), Lock() and Unlock() calls on the
\* same project, at most one invocation of the wrapped executor's Plan/Apply
\* is in progress at any time
C1_MutualExclusion == Cardinality({p \in Parties : InExecutor(p)}) <= 1

NotAcquired(p) ==
    /\ call[p].op \in {"Plan", "Apply"}
    /\ call[p].lockErr = Nil
    /\ ~call[p].acquired

\* C2: when Lock() reports "not acquired" with no error, Plan() returns
\* (false, "", nil), Apply() returns (false, nil), and the wrapped executor is
\* not invoked in that call
C2_NotAcquiredSkips ==
    \A p \in Parties :
        NotAcquired(p) =>
            /\ call[p].execCalls = 0
            /\ ~InExecutor(p)
            /\ call[p].op = "Plan" => call[p].ret = [ok |-> FALSE, plan |-> "", err |-> Nil]
            /\ call[p].op = "Apply" => call[p].ret = [ok |-> FALSE, err |-> Nil]

C2_Witness ==
    \E p \in Parties :
        /\ NotAcquired(p)
        /\ call[p].op = "Plan"
        /\ lockHolder \notin {p, NoParty}

\* C3: when Lock() returns an error, Plan()/Apply() return success=false with a
\* non-nil error (and empty plan text) and do not invoke the wrapped executor;
\* the wrapped executor is invoked exactly once, and its result returned
\* unchanged, exactly when Lock() returned acquired=true with no error
C3_LockErrorOrDelegation ==
    \A p \in Parties :
        call[p].op \in {"Plan", "Apply"} =>
            /\ call[p].lockErr # Nil =>
                  /\ call[p].execCalls = 0
                  /\ ~InExecutor(p)
                  /\ call[p].ret.ok = FALSE
                  /\ call[p].ret.err # Nil
                  /\ call[p].op = "Plan" => call[p].ret.plan = ""
            /\ call[p].execCalls = (IF call[p].acquired /\ call[p].lockErr = Nil THEN 1 ELSE 0)
            /\ (call[p].execCalls = 1 /\ ~InExecutor(p)) =>
                  /\ call[p].execRet # NoRet
                  /\ call[p].ret = call[p].execRet

C3_Witness ==
    \E p, q \in Parties :
        /\ call[p].op = "Plan" /\ call[p].lockErr # Nil
        /\ call[q].op \in {"Plan", "Apply"} /\ call[q].execCalls = 1
        /\ ~InExecutor(q) /\ call[q].ret.err # Nil

\* C10: the decorator's Lock() never invokes the wrapped executor, and whenever
\* it returns nil the calling party holds the project lock
C10_LockNilMeansHeld ==
    [][ \A p \in Parties :
          (call'[p] # call[p] /\ call'[p].op = "Lock") =>
              /\ call'[p].execCalls = 0
              /\ ~InExecutor(p)'
              /\ call'[p].ret.err = Nil => lockHolder' = p ]_vars

(***************************************************************************)
(* Properties of the sanitizer (SanSpec)                                    *)
(***************************************************************************)
SanRegex == IF sanIn.mode = "plan" THEN PlanRegex ELSE NilRegex
SanPositions == CleanupPositions(sanIn.nonEmpty, sanIn.stdout, SanRegex)

IsSubstring(sub, s) == Occurrences(s, sub) # {}

\* C6: for every stdout, stderr, error, nonEmptyChange flag and call mode the
\* positions satisfy 0 <= start <= end <= len(stdout) after the guard, no slice
\* is out of range, and the result is a contiguous substring of stdout or is
\* stderr (or empty)
C6_SanitizerTotal ==
    /\ 0 <= SanPositions.startPos
    /\ SanPositions.startPos <= SanPositions.endPos
    /\ SanPositions.endPos <= Len(SanPositions.stdout)
    /\ sanOut # NotRun =>
          /\ sanOut # Panic
          /\ IsSubstring(sanOut, sanIn.stdout) \/ sanOut = sanIn.stderr

\* the pattern's match ends at or before the start anchor: the guard resets the end
C6_Witness ==
    /\ sanOut # NotRun
    /\ sanIn.mode = "plan"
    /\ sanIn.err = Nil
    /\ SanPositions.startPos > 0
    /\ RegexEndPos(SanPositions.stdout, PlanRegex) <= SanPositions.startPos

\* C7: feeding the sanitizer's result back in as stdout with the same
\* nonEmptyChange, error and pattern returns exactly the same string
C7_Idempotent == sanAgain # NotRun => sanAgain = sanOut

\* the separator lines of the backend-trimmed stdout that start after the anchor
SeparatorsAfterAnchor ==
    LET s == TrimBackend(sanIn.stdout)
        a == Index(s, StartAnchor(sanIn.nonEmpty))
    IN  IF a = -1 THEN {} ELSE {i - a : i \in {j \in MatchStarts(s) : j > a}}

\* C8: in plan mode with no error, when stdout contains a separator line after
\* the start anchor, the sanitized text ends before the separator: it contains
\* neither the separator line nor anything after it
C8_EndsBeforeSeparator ==
    ( /\ sanOut # NotRun
      /\ sanIn.mode = "plan"
      /\ sanIn.err = Nil
      /\ SeparatorsAfterAnchor # {} ) =>
        /\ MatchStarts(sanOut) = {}
        /\ Len(sanOut) <= Min(SeparatorsAfterAnchor)

\* the position just past the last match of the pattern in s
LastMatchEnd(s) == LineEnd(s, Max(MatchStarts(s)))

\* C14: when the trailing pattern is supplied and matches (no error set), the
\* end position is just past the last match of the pattern in the
\* backend-trimmed stdout, also when it matches several times with different
\* matched text, unless the guard resets it because it is not strictly after
\* the start position
C14_EndsAfterLastMatch ==
    ( /\ sanOut # NotRun
      /\ sanIn.mode = "plan"
      /\ sanIn.err = Nil
      /\ MatchStarts(SanPositions.stdout) # {} ) =>
        LET s == SanPositions.stdout
            e == LastMatchEnd(s)
        IN  /\ RegexEndPos(s, PlanRegex) = e
            /\ SanPositions.endPos = (IF e <= SanPositions.startPos THEN Len(s) ELSE e)
            /\ sanOut = Slice(s, SanPositions.startPos, SanPositions.endPos)

ChosenAnchor ==
    IF sanIn.nonEmpty
    THEN <<"Terraform will perform the following actions:">>
    ELSE <<"No changes. Your infrastructure matches the configuration.">>

BeginsWith(s, prefix) ==
    Len(prefix) <= Len(s) /\ SubSeq(s, 1, Len(prefix)) = prefix

Differ(a, b) ==
    /\ a.ProjectPath = b.ProjectPath
    /\ a.ProjectNamespace # b.ProjectNamespace \/ a.ProjectName # b.ProjectName

NamesDiffer ==
    /\ pathOut[1].file # pathOut[2].file
    /\ pathOut[1].local # pathOut[2].local
    /\ pathOut[1].stored # pathOut[2].stored

Has(s, c) == \E i \in 1..Len(s) : s[i] = c

\* an identity whose namespace has no ':' and no '#' and whose name has no '/'
Practical(a) ==
    /\ ~Has(a.ProjectNamespace, ":")
    /\ ~Has(a.ProjectNamespace, "#")
    /\ ~Has(a.ProjectName, Slash)

\* C9 as stated: any two identities that differ in namespace or name (same
\* project path) yield different local plan file names/paths and different
\* storage keys
C9_Injective ==
    (pathOut # NotRun /\ Differ(pathIds[1], pathIds[2])) => NamesDiffer

\* C9: any two identities that differ in namespace or name (same project path),
\* whose namespaces contain neither ':' nor '#' and whose names contain no '/',
\* yield different local plan file names/paths and different storage keys
C9_InjectivePractical ==
    ( /\ pathOut # NotRun
      /\ Differ(pathIds[1], pathIds[2])
      /\ Practical(pathIds[1]) /\ Practical(pathIds[2]) ) => NamesDiffer

C9_Witness ==
    /\ pathOut # NotRun
    /\ Practical(pathIds[1]) /\ Practical(pathIds[2])
    /\ pathIds[1].ProjectName = pathIds[2].ProjectName
    /\ pathIds[1].ProjectNamespace # pathIds[2].ProjectNamespace
    /\ Has(pathIds[1].ProjectNamespace, Slash)
    /\ NamesDiffer

(***************************************************************************)
(* Properties of the step interpreter (ExSpec)                              *)
(***************************************************************************)
IsReport(c) == c.call = "Report"
IsStepCall(c) == c.call \in {"Init", "Plan", "Apply", "Run"}
ActionOf(c) ==
    CASE c.call = "Init" -> "init"
      [] c.call = "Plan" -> "plan"
      [] c.call = "Apply" -> "apply"
      [] c.call = "Run" -> "run"

Handled == IF exOp = "Plan" THEN {"init", "plan", "run"} ELSE {"init", "apply", "run"}
StepCalls == SelectSeq(calls, IsStepCall)
FailingCalls == {k \in 1..Len(calls) : calls[k].err # Nil /\ ~IsReport(calls[k])}

\* C4: in Plan() and Apply() steps run strictly in list order; the first step
\* whose external call errors (init, plan, apply, run or a storage call) ends
\* the call with success=false and a non-nil error; no external call of a later
\* step is made; success=true is returned only when no step errored
C4_FirstErrorAborts ==
    /\ \A k \in 1..(Len(calls) - 1) : calls[k].step <= calls[k + 1].step
    /\ \A k \in 1..Len(StepCalls) :
          /\ steps[StepCalls[k].step].Action = ActionOf(StepCalls[k])
          /\ ActionOf(StepCalls[k]) \in Handled
          /\ k > 1 => StepCalls[k - 1].step < StepCalls[k].step
    /\ \A k \in FailingCalls :
          /\ exPc = "done"
          /\ ret.ok = FALSE
          /\ ret.err # Nil
          /\ \A j \in (k + 1)..Len(calls) :
                IsReport(calls[j]) /\ calls[j].step = calls[k].step
    /\ (exPc = "done" /\ ret.ok) =>
          /\ FailingCalls = {}
          /\ Len(StepCalls) = Cardinality({i \in 1..Len(steps) : steps[i].Action \in Handled})

\* the stage [init, apply] whose init failed
C4_Witness ==
    /\ exPc = "done"
    /\ exOp = "Apply"
    /\ Len(steps) = 2
    /\ steps[1].Action = "init" /\ steps[2].Action = "apply"
    /\ \E k \in FailingCalls : calls[k].call = "Init"

FailedApplies == {k \in 1..Len(calls) : calls[k].call = "Apply" /\ calls[k].err # Nil}

\* C5: when the tool's apply returns an error, exactly two Report calls are made
\* for that step: first the sanitized output (stderr if non-empty, else the
\* stdout from the backend marker on), then the 'Error during applying.' notice
\* with the error text; then Apply() returns (false, non-nil error), whether or
\* not either Report call fails
C5_FailedApplyReportsTwice ==
    \A k \in FailedApplies :
        /\ Len(calls) = k + 2
        /\ IsReport(calls[k + 1])
        /\ calls[k + 1].args[1] =
              (IF calls[k].out.stderr # << >> THEN calls[k].out.stderr
               ELSE TrimBackend(calls[k].out.stdout))
        /\ IsReport(calls[k + 2])
        /\ calls[k + 2].args = <<calls[k].err, "Error during applying.">>
        /\ exPc = "done"
        /\ ret.ok = FALSE
        /\ ret.err # Nil

C5_Witness ==
    \E k \in FailedApplies :
        /\ Len(calls) = k + 2
        /\ calls[k].out.stderr # << >>
        /\ calls[k + 1].err # Nil
        /\ calls[k + 2].err # Nil
        /\ exPc = "done"

StorageCalls == {"PlanExists", "DeleteStoredPlan", "StorePlan", "RetrievePlan"}
PlanKey == StoredPlanFilePath(Project)
PlanLocal == LocalPlanFilePath(Project)
SucceededPlans == {k \in 1..Len(calls) : calls[k].call = "Plan" /\ calls[k].err = Nil}

\* Plan() has returned (false, "", error) right after the call at position k
PlanAbortedAt(k) ==
    /\ Len(calls) = k
    /\ exPc = "done"
    /\ ret.ok = FALSE /\ ret.plan = << >> /\ ret.err # Nil

IsCall(k, name, args) ==
    /\ k <= Len(calls)
    /\ calls[k].call = name
    /\ calls[k].args = args

\* the storage calls after the successful tool call at position k
StoredInOrder(k) ==
    /\ IsCall(k + 1, "PlanExists", <<PlanKey>>)
    /\ IF calls[k + 1].err # Nil THEN PlanAbortedAt(k + 1)
       ELSE IF calls[k + 1].out = TRUE
       THEN /\ IsCall(k + 2, "DeleteStoredPlan", <<PlanKey>>)
            /\ IF calls[k + 2].err # Nil THEN PlanAbortedAt(k + 2)
               ELSE /\ IsCall(k + 3, "StorePlan", <<PlanLocal, PlanKey>>)
                    /\ calls[k + 3].err # Nil => PlanAbortedAt(k + 3)
                    /\ k + 4 <= Len(calls) => calls[k + 4].call \notin StorageCalls
       ELSE /\ IsCall(k + 2, "StorePlan", <<PlanLocal, PlanKey>>)
            /\ calls[k + 2].err # Nil => PlanAbortedAt(k + 2)
            /\ k + 3 <= Len(calls) => calls[k + 3].call \notin StorageCalls

\* C11: in Plan() with an artifact store, every plan step whose tool call
\* succeeds calls PlanExists(key), then DeleteStoredPlan(key) iff PlanExists
\* returned true, then StorePlan(localPath, key); an error of any of them aborts
\* Plan() with (false, "", error) and skips the rest; after a successful Plan()
\* the key holds the plan of the last plan step; without a store no storage
\* call is made
C11_PlanStoresInOrder ==
    exOp = "Plan" =>
        /\ ~d.PlanStorage => \A k \in 1..Len(calls) : calls[k].call \notin StorageCalls
        /\ d.PlanStorage =>
              /\ \A k \in SucceededPlans : StoredInOrder(k)
              /\ \A k \in 1..Len(calls) :
                    calls[k].call \in StorageCalls =>
                        \E j \in SucceededPlans : j < k /\ k <= j + 3 /\ calls[j].step = calls[k].step
              /\ (exPc = "done" /\ ret.ok /\ SucceededPlans # {}) =>
                    stored = PlanOf(calls[Max(SucceededPlans)].step)

\* two plan steps: the second replaces the plan the first stored
C11_Witness ==
    /\ exOp = "Plan"
    /\ exPc = "done"
    /\ ret.ok
    /\ Cardinality(SucceededPlans) = 2
    /\ \E k \in 1..Len(calls) : calls[k].call = "DeleteStoredPlan"
    /\ stored = PlanOf(2)

Retrievals == {k \in 1..Len(calls) : calls[k].call = "RetrievePlan"}
ToolApplies == {k \in 1..Len(calls) : calls[k].call = "Apply"}

\* C12: in Apply() with an artifact store, RetrievePlan is called exactly once
\* and before any step; if it fails Apply() returns (false, error) without any
\* Init, Apply, command-runner or Reporter call; if it succeeds the retrieved
\* file reference is passed to every tool Apply call; without a store
\* RetrievePlan is never called and the tool Apply call receives no plan file
C12_RetrieveFirst ==
    exOp = "Apply" =>
        /\ d.PlanStorage =>
              /\ Retrievals = {1}
              /\ calls[1].args = <<PlanLocal, PlanKey>>
              /\ calls[1].err # Nil =>
                    /\ Len(calls) = 1
                    /\ exPc = "done"
                    /\ ret.ok = FALSE /\ ret.err # Nil
              /\ calls[1].err = Nil =>
                    /\ calls[1].out # NilPtr
                    /\ \A k \in ToolApplies : calls[k].args[2] = calls[1].out
        /\ ~d.PlanStorage =>
              /\ Retrievals = {}
              /\ \A k \in ToolApplies : calls[k].args[2] = NilPtr

C12_Witness ==
    /\ exOp = "Apply"
    /\ d.PlanStorage
    /\ calls[1].err = Nil
    /\ ToolApplies # {}
    /\ \A k \in ToolApplies : calls[k].args[2] = PlanLocal

\* the Report arguments that follow the tool Apply call c
ExpectedReports(c) ==
    << <<cleanupTerraformApply(TRUE, c.err, c.out.stdout, c.out.stderr),
         "Apply for <b>o/r#p</b>">> >>
    \o (IF c.err # Nil THEN << <<c.err, "Error during applying.">> >> ELSE << >>)

ErrorContext(c) ==
    CASE c.call = "RetrievePlan" -> "error retrieving plan"
      [] c.call = "Init" -> "error running init"
      [] c.call = "Apply" -> "error executing apply"
      [] c.call = "Run" -> "error running command"

\* what Apply() returns, from the calls other than Report
ExpectedApplyRet ==
    IF FailingCalls = {} THEN [ok |-> TRUE, err |-> Nil]
    ELSE [ok |-> FALSE,
          err |-> Errorf(ErrorContext(calls[Min(FailingCalls)]), calls[Min(FailingCalls)].err)]

\* C13: a Reporter failure never aborts Apply() nor masks its outcome: the
\* returned (success, error) and the sequence of tool, command-runner and
\* Report calls are determined by the stage and by the outcomes of the tool,
\* the command runner and the store, whether each Report succeeds or fails
C13_ReportFailureIgnored ==
    exOp = "Apply" =>
        /\ \A k \in ToolApplies :
              LET e == ExpectedReports(calls[k])
              IN  /\ k + Len(e) <= Len(calls)
                  /\ \A j \in 1..Len(e) :
                        IsReport(calls[k + j]) /\ calls[k + j].args = e[j]
                  /\ k + Len(e) + 1 <= Len(calls) => ~IsReport(calls[k + Len(e) + 1])
        /\ \A k \in 1..Len(calls) :
              IsReport(calls[k]) =>
                  \E j \in ToolApplies : j < k /\ k <= j + Len(ExpectedReports(calls[j]))
        /\ exPc = "done" => ret = ExpectedApplyRet
        /\ exPc # "done" => FailingCalls = {}

\* a Report failed, the loop went on to the next step and Apply() succeeded
C13_Witness ==
    /\ exOp = "Apply"
    /\ exPc = "done"
    /\ ret.ok
    /\ \E k \in 1..(Len(calls) - 1) :
          /\ IsReport(calls[k])
          /\ calls[k].err # Nil
          /\ calls[k + 1].call = "Run"

\* C15, in Plan(): when the last plan step's tool call returns no changes and
\* no error, a successful Plan() returns the sanitized output of that call, which
\* contains the no-changes anchor if the output carried it; and Plan() succeeds
\* unless a call fails
PlanNoChangesKeepsAnchor ==
    (exOp = "Plan" /\ exPc = "done") =>
        /\ ret.ok = (FailingCalls = {})
        /\ (ret.ok /\ SucceededPlans # {}) =>
              LET o == calls[Max(SucceededPlans)].out
              IN  /\ ret.plan = cleanupTerraformPlan(o.nonEmpty, Nil, o.stdout, o.stderr)
                  /\ (~o.nonEmpty /\ IsSubstring(StartNoChanges, TrimBackend(o.stdout))) =>
                        IsSubstring(StartNoChanges, ret.plan)

PlanNoChangesReached ==
    /\ exOp = "Plan" /\ exPc = "done" /\ ret.ok
    /\ SucceededPlans # {}
    /\ ~calls[Max(SucceededPlans)].out.nonEmpty
    /\ IsSubstring(StartNoChanges, ret.plan)

RunCalls == {k \in 1..Len(calls) : calls[k].call = "Run"}

\* C16: Apply()'s run-step handling is identical to Plan()'s: for the same run
\* step, project path and process environment both pass the command runner the
\* same working directory, shell and command list, the virtual-environment
\* activation command included, and both abort with an error when the command
\* fails
C16_RunIdentical ==
    \A k \in RunCalls :
        /\ calls[k].args = <<Project.ProjectPath, steps[calls[k].step].Shell,
                             PlanRunCommands(steps[calls[k].step], env)>>
        /\ calls[k].err # Nil =>
              /\ k = Len(calls)
              /\ exPc = "done"
              /\ ~ret.ok
              /\ ret.err # Nil

FailedPlans == {k \in 1..Len(calls) : calls[k].call = "Plan" /\ calls[k].err # Nil}
SanitizedFor(i) == {j \in 1..Len(sanitized) : sanitized[j].step = i}

\* C17 as stated: in Plan() an error from the tool's plan operation does not
\* short-circuit sanitization: the sanitizer is still invoked for that step and
\* receives the error, so that it returns the raw stderr/stdout
C17_SanitizerSeesPlanError ==
    exOp = "Plan" =>
        \A k \in FailedPlans :
            \E j \in SanitizedFor(calls[k].step) :
                /\ sanitized[j].err = calls[k].err
                /\ sanitized[j].out = ErrorStr(calls[k].out.stdout, calls[k].out.stderr)

\* C17 amended: in Plan() an error from the tool's plan operation
\* short-circuits the step: Plan() returns (false, "", wrapped error) right
\* after the tool call, and the sanitizer is not invoked for that step; every
\* call of the sanitizer in Plan() receives a nil error
C17_PlanErrorSkipsSanitizer ==
    exOp = "Plan" =>
        /\ \A k \in FailedPlans :
              /\ SanitizedFor(calls[k].step) = {}
              /\ PlanAbortedAt(k)
              /\ ret.err = Errorf("error executing plan", calls[k].err)
        /\ \A j \in 1..Len(sanitized) : sanitized[j].err = Nil

\* a plan step was sanitized, and the tool call of the next plan step failed
C17_Witness ==
    /\ exOp = "Plan"
    /\ FailedPlans # {}
    /\ sanitized # << >>
    /\ exPc = "done"

InLoop == exPc \in {"planLoop", "applyLoop"}
HandledSteps == {i \in 1..Len(steps) : steps[i].Action \in Handled}
UnhandledSteps == (1..Len(steps)) \ HandledSteps
StepsOf(cs) == [k \in 1..Len(cs) |-> cs[k].step]
IsPrefix(s, t) == Len(s) <= Len(t) /\ SubSeq(t, 1, Len(s)) = s
RECURSIVE Ascending(_, _)
Ascending(S, from) ==
    IF \A i \in S : i < from THEN << >>
    ELSE LET m == Min({i \in S : i >= from}) IN <<m>> \o Ascending(S, m + 1)

\* the calls made so far are those of the handled steps alone
OnlyHandledStepsCall ==
    /\ \A k \in 1..Len(calls) :
          \/ calls[k].step = 0
          \/ /\ calls[k].step \in HandledSteps
             /\ IsStepCall(calls[k]) => ActionOf(calls[k]) = steps[calls[k].step].Action
    /\ \A j \in 1..Len(sanitized) :
          /\ sanitized[j].step \in HandledSteps
          /\ steps[sanitized[j].step].Action \in {"plan", "apply"}
    /\ IsPrefix(StepsOf(StepCalls), Ascending(HandledSteps, 1))
    /\ InLoop =>
          StepsOf(StepCalls) = Ascending({i \in HandledSteps : i < idx}, 1)
    /\ exPc = "done" =>
          /\ ret.ok = (FailingCalls = {})
          /\ ret.ok => StepsOf(StepCalls) = Ascending(HandledSteps, 1)

\* the loop is at a step whose action the running operation does not handle
AtUnhandledStep == InLoop /\ idx \in UnhandledSteps

\* C18: a step whose action is not handled by the running operation is a no-op:
\* it causes no tool, command-runner, store or Reporter call, leaves the plan
\* text unchanged and does not change the returned success/error; the remaining
\* steps run as if it were absent
C18_UnhandledStepIsNoOp ==
    [][ /\ AtUnhandledStep =>
              /\ idx' = idx + 1
              /\ UNCHANGED <<calls, sanitized, plan, plansFilename, stored, ret,
                             exPc, exOp, steps>>
        /\ OnlyHandledStepsCall' ]_vars

\* a handled step has run after a step that is not handled, and the call
\* has returned success
C18_Witness ==
    /\ exPc = "done"
    /\ ret.ok
    /\ \E i \in UnhandledSteps : \E k \in 1..Len(calls) : calls[k].step > i

(***************************************************************************)
(* The lock across calls (Spec)                                            *)
(***************************************************************************)
\* this step is party p's Plan() or Apply() up to its Lock() call
Starts(p) ==
    /\ pc[p] = "idle"
    /\ call'[p] # call[p]
    /\ call'[p].op \in {"Plan", "Apply"}

\* this step is the wrapped executor's return to party p
Returns(p) == pc[p] \in {"inPlan", "inApply"} /\ pc'[p] = "idle"

\* this step is a successful Unlock()
UnlockSucceeds ==
    \E q \in Parties :
        /\ pc[q] = "idle"
        /\ call'[q].op = "Unlock"
        /\ call'[q].ret = [err |-> Nil]
        /\ lockHolder' = NoParty

HeldByOther(p) == lockHolder \notin {NoParty, p}

SkippedResult(op) ==
    IF op = "Plan" THEN [ok |-> FALSE, plan |-> "", err |-> Nil]
    ELSE [ok |-> FALSE, err |-> Nil]

LockErrorResult(op, err) ==
    IF op = "Plan"
    THEN [ok |-> FALSE, plan |-> "", err |-> Errorf("error locking project", err)]
    ELSE [ok |-> FALSE, err |-> Errorf("error locking project", err)]

\* Plan() and Apply() never release the lock, only a successful Unlock() does
OnlyUnlockReleases ==
    /\ \A p \in Parties : Returns(p) => lockHolder' = lockHolder
    /\ (lockHolder # NoParty /\ lockHolder' # lockHolder) => UnlockSucceeds
    /\ \A p \in Parties :
          (Starts(p) /\ lockHolder = NoParty /\ call'[p].lockErr = Nil) =>
              /\ call'[p].acquired
              /\ lockHolder' = p
              /\ pc'[p] # "idle"

\* C19 as stated: the decorator's Plan() and Apply() never release the project
\* lock, only Unlock() frees it; every later Plan()/Apply() by a different party
\* returns the neutral skipped result until some caller's Unlock() succeeds,
\* after which the next acquisition attempt can succeed
C19_OthersSkippedUntilUnlock ==
    [][ /\ OnlyUnlockReleases
        /\ \A p \in Parties :
              (Starts(p) /\ HeldByOther(p)) =>
                  /\ call'[p].execCalls = 0
                  /\ call'[p].ret = SkippedResult(call'[p].op) ]_vars

\* C19 amended: the decorator's Plan() and Apply() never release the project
\* lock, only Unlock() frees it; until some caller's Unlock() succeeds a later
\* Plan()/Apply() by a different party never reaches the wrapped executor and
\* leaves the lock with its holder: it returns the neutral skipped result, or
\* the wrapped lock error when Lock() itself fails; after a successful Unlock()
\* the next acquisition attempt can succeed
C19_OthersKeptOutUntilUnlock ==
    [][ /\ OnlyUnlockReleases
        /\ \A p \in Parties :
              (Starts(p) /\ HeldByOther(p)) =>
                  /\ call'[p].execCalls = 0
                  /\ pc'[p] = "idle"
                  /\ lockHolder' = lockHolder
                  /\ call'[p].ret =
                        IF call'[p].lockErr = Nil
                        THEN SkippedResult(call'[p].op)
                        ELSE LockErrorResult(call'[p].op, call'[p].lockErr) ]_vars

\* a call that acquired the lock has returned, the lock is still held, and
\* another party's Plan() or Apply() was skipped
C19_Witness ==
    \E p, q \in Parties :
        /\ p # q
        /\ lockHolder = p
        /\ pc[p] = "idle"
        /\ call[p].op \in {"Plan", "Apply"}
        /\ call[p].execCalls = 1
        /\ call[p].ret = call[p].execRet
        /\ call[q].op \in {"Plan", "Apply"}
        /\ call[q].ret = SkippedResult(call[q].op)

\* after a successful Unlock() another party has acquired the lock
AcquiredAfterUnlock ==
    \E p, q \in Parties :
        /\ p # q
        /\ call[p].op = "Unlock"
        /\ call[p].ret = [err |-> Nil]
        /\ lockHolder = q
        /\ pc[q] \in {"inPlan", "inApply"}

(***************************************************************************)
(* The stored plan across a plan step (ExSpec)                             *)
(***************************************************************************)
\* this step is a plan step of Plan()
PlanStepTaken ==
    /\ exPc = "planLoop"
    /\ idx \in 1..Len(steps)
    /\ steps[idx].Action = "plan"
    /\ calls' # calls

\* the calls this step makes
NewCalls == SubSeq(calls', Len(calls) + 1, Len(calls'))

\* this step deletes the stored plan and then fails to store the new one
DeletedThenStoreFailed ==
    /\ Len(NewCalls) >= 2
    /\ NewCalls[Len(NewCalls) - 1].call = "DeleteStoredPlan"
    /\ NewCalls[Len(NewCalls) - 1].err = Nil
    /\ NewCalls[Len(NewCalls)].call = "StorePlan"
    /\ NewCalls[Len(NewCalls)].err # Nil

\* C20: replacement of the stored plan in Plan() is not atomic but confined to
\* one window: a plan step that aborts (tool error, PlanExists error,
\* DeleteStoredPlan error) leaves the store's content at the storage key as it
\* was before the step, except when DeleteStoredPlan succeeded and the following
\* StorePlan failed: then Plan() returns an error and the key holds no plan
C20_ReplacementWindow ==
    [][ IF PlanStepTaken
        THEN IF exPc' = "done"
             THEN /\ ~ret'.ok /\ ret'.err # Nil
                  /\ NewCalls[Len(NewCalls)].err # Nil
                  /\ IF DeletedThenStoreFailed
                     THEN /\ stored # NoPlan
                          /\ stored' = NoPlan
                          /\ ret'.err = Errorf("error storing plan",
                                               NewCalls[Len(NewCalls)].err)
                     ELSE stored' = stored
             ELSE stored' = IF d.PlanStorage THEN PlanOf(idx) ELSE stored
        ELSE stored' = stored ]_vars

\* Plan() has returned an error after deleting the stored plan and failing to
\* store the new one: the key holds no plan
C20_Witness ==
    /\ exOp = "Plan"
    /\ exPc = "done"
    /\ ~ret.ok
    /\ Len(calls) >= 3
    /\ calls[Len(calls) - 2].call = "PlanExists" /\ calls[Len(calls) - 2].out = TRUE
    /\ calls[Len(calls) - 1].call = "DeleteStoredPlan" /\ calls[Len(calls) - 1].err = Nil
    /\ calls[Len(calls)].call = "StorePlan" /\ calls[Len(calls)].err # Nil
    /\ stored = NoPlan

====
